---- MODULE Spec2Model ----
(***************************************************************************)
(* State-machine model of QueryStore (src/src/queries/store.ts): a table   *)
(* from query id to QueryStoreValue, driven by initQuery, markQueryResult, *)
(* markQueryError, markQueryResultClient, stopQuery and reset.             *)
(*                                                                         *)
(* Spec vocabulary -> source names:                                        *)
(*   initialize = initQuery, markSuccess = markQueryResult,                *)
(*   markError = markQueryError, markClientResult = markQueryResultClient, *)
(*   stop = stopQuery, linkedId = fetchMoreForQueryId,                     *)
(*   sourceText = queryString, status = networkStatus,                     *)
(*   resultErrors = graphQLErrors.                                         *)
(***************************************************************************)
EXTENDS Integers, Sequences, FiniteSets, TLC

\* ---------------------------------------------------------------- bounds
\* longest result.errors array a fetch returns
MaxErrors == 1

\* ---------------------------------------------------------------- inputs
QueryIds == {"q1", "q2"}

\* queryString / document pairs handed to initQuery (document is the parsed
\* form of queryString)
Queries == { [queryString |-> "s1", document |-> "d1"],
             [queryString |-> "s2", document |-> "d2"] }

\* variables objects; Content gives the key -> value mapping an object holds
Variables == {"o1", "o2"}

Content(v) == IF v = "o1" THEN [x |-> 1] ELSE [x |-> 2]

Metadata == {"m1", "m2"}

\* variables / metadata pairs handed to initQuery: each fetch brings its own
\* variables object and its own metadata
FetchOptions == { [variables |-> "o1", metadata |-> "m1"],
                  [variables |-> "o2", metadata |-> "m2"] }

NetworkErrors == {"e1"}

GraphQLErrors == {"g1"}

\* null (previousVariables, networkError)
Null == "null"

\* an absent fetchMoreForQueryId argument (typeof is not 'string')
Undefined == "undefined"

ErrorArrays == UNION { [1..n -> GraphQLErrors] : n \in 0..MaxErrors }

\* ExecutionResult: errors is an optional field
Results == { [data |-> "data"] } \cup
           { [data |-> "data", errors |-> es] : es \in ErrorArrays }

NetworkStatus ==
    {"loading", "setVariables", "fetchMore", "refetch", "poll", "ready", "error"}

\* ------------------------------------------------------------------ state
VARIABLES store, call, pre, raised

vars == <<store, call, pre, raised>>

\* the call slot when the caller is between two calls
NoCall == [op |-> "none"]

QueryStoreValue ==
    [ queryString : {q.queryString : q \in Queries},
      document : {q.document : q \in Queries},
      variables : Variables,
      previousVariables : Variables \cup {Null},
      networkStatus : NetworkStatus,
      networkError : NetworkErrors \cup {Null},
      graphQLErrors : ErrorArrays,
      metadata : Metadata ]

\* this.store[key] = value
Put(st, key, value) ==
    [k \in DOMAIN st \cup {key} |-> IF k = key THEN value ELSE st[k]]

\* util/isEqual: deep equality of two variables objects
IsEqual(a, b) == Content(a) = Content(b)

\* mutant: the queryString guard is missing
QueryStringMismatch_Unchecked(st, queryId, queryString) == FALSE

\* mutant: the guard fires for every existing record
QueryStringMismatch_AnyExisting(st, queryId, queryString) ==
    queryId \in DOMAIN st

\* ---------------------------------------------------------------- initQuery
QueryStringMismatch(st, queryId, queryString) ==
    queryId \in DOMAIN st /\ st[queryId].queryString # queryString

\* mutant: the "previous query still loading" condition is missing
IsSetVariables_IgnoresLoading(st, queryId, storePreviousVariables, variables) ==
    /\ storePreviousVariables
    /\ queryId \in DOMAIN st
    /\ ~IsEqual(st[queryId].variables, variables)

IsSetVariables(st, queryId, storePreviousVariables, variables) ==
    /\ storePreviousVariables
    /\ queryId \in DOMAIN st
    /\ st[queryId].networkStatus # "loading"
    /\ ~IsEqual(st[queryId].variables, variables)

\* mutant: isPoll is tested before isSetVariables
NewNetworkStatus_PollFirst(isSetVariables, isPoll, isRefetch) ==
    IF isPoll THEN "poll"
    ELSE IF isSetVariables THEN "setVariables"
    ELSE IF isRefetch THEN "refetch"
    ELSE "loading"


\* mutant: isRefetch is tested before isPoll
NewNetworkStatus_RefetchFirst(isSetVariables, isPoll, isRefetch) ==
    IF isSetVariables THEN "setVariables"
    ELSE IF isRefetch THEN "refetch"
    ELSE IF isPoll THEN "poll"
    ELSE "loading"

\* mutant: a refetch is given the fetchMore status directly
NewNetworkStatus_RefetchIsFetchMore(isSetVariables, isPoll, isRefetch) ==
    IF isSetVariables THEN "setVariables"
    ELSE IF isPoll THEN "poll"
    ELSE IF isRefetch THEN "fetchMore"
    ELSE "loading"

NewNetworkStatus(isSetVariables, isPoll, isRefetch) ==
    IF isSetVariables THEN "setVariables"
    ELSE IF isPoll THEN "poll"
    ELSE IF isRefetch THEN "refetch"
    ELSE IF isPoll THEN "poll"
    ELSE "loading"

\* mutant: the error fields of the previous record survive the overwrite
NewQuery_KeepsErrors(st, queryId, query, storePreviousVariables, variables, isPoll, isRefetch, metadata) ==
    LET isSetVariables ==
            IsSetVariables(st, queryId, storePreviousVariables, variables)
    IN  [ queryString |-> query.queryString,
          document |-> query.document,
          variables |-> variables,
          previousVariables |->
              IF isSetVariables THEN st[queryId].variables ELSE Null,
          networkError |->
              IF queryId \in DOMAIN st THEN st[queryId].networkError ELSE Null,
          graphQLErrors |->
              IF queryId \in DOMAIN st THEN st[queryId].graphQLErrors ELSE <<>>,
          networkStatus |-> NewNetworkStatus(isSetVariables, isPoll, isRefetch),
          metadata |-> metadata ]

NewQuery(st, queryId, query, storePreviousVariables, variables, isPoll, isRefetch, metadata) ==
    LET isSetVariables ==
            IsSetVariables(st, queryId, storePreviousVariables, variables)
    IN  [ queryString |-> query.queryString,
          document |-> query.document,
          variables |-> variables,
          previousVariables |->
              IF isSetVariables THEN st[queryId].variables ELSE Null,
          networkError |-> Null,
          graphQLErrors |-> <<>>,
          networkStatus |-> NewNetworkStatus(isSetVariables, isPoll, isRefetch),
          metadata |-> metadata ]

\* mutant: only a settled (ready) linked query gets the new status
SetFetchMoreStatus_OnlyWhenReady(st, fetchMoreForQueryId, status) ==
    IF fetchMoreForQueryId = Undefined
    THEN [store |-> st, raised |-> "none"]
    ELSE IF fetchMoreForQueryId \in DOMAIN st
    THEN [store |->
            IF st[fetchMoreForQueryId].networkStatus = "ready"
            THEN [st EXCEPT ![fetchMoreForQueryId].networkStatus = status]
            ELSE st,
          raised |-> "none"]
    ELSE [store |-> st, raised |-> "TypeError"]

\* this.store[fetchMoreForQueryId].networkStatus = status, guarded by
\* typeof fetchMoreForQueryId === 'string'; writing a property of the
\* undefined this.store[fetchMoreForQueryId] throws a TypeError
SetFetchMoreStatus(st, fetchMoreForQueryId, status) ==
    IF fetchMoreForQueryId = Undefined
    THEN [store |-> st, raised |-> "none"]
    ELSE IF fetchMoreForQueryId \in DOMAIN st
    THEN [store |-> [st EXCEPT ![fetchMoreForQueryId].networkStatus = status],
          raised |-> "none"]
    ELSE [store |-> st, raised |-> "TypeError"]

InitQueryEffect(st, queryId, query, storePreviousVariables, variables, isPoll, isRefetch, metadata, fetchMoreForQueryId) ==
    IF QueryStringMismatch(st, queryId, query.queryString)
    THEN [store |-> st, raised |-> "Error"]
    ELSE SetFetchMoreStatus(
            Put(st, queryId,
                NewQuery(st, queryId, query, storePreviousVariables, variables,
                         isPoll, isRefetch, metadata)),
            fetchMoreForQueryId, "fetchMore")

InitQuery ==
    /\ call = NoCall
    /\ \E queryId \in QueryIds, query \in Queries, storePreviousVariables \in BOOLEAN,
          options \in FetchOptions, isPoll \in BOOLEAN, isRefetch \in BOOLEAN,
          fetchMoreForQueryId \in QueryIds \cup {Undefined} :
        /\ LET r == InitQueryEffect(store, queryId, query, storePreviousVariables,
                        options.variables, isPoll, isRefetch, options.metadata,
                        fetchMoreForQueryId)
           IN  /\ store' = r.store
               /\ raised' = r.raised
        /\ pre' = store
        /\ call' = [ op |-> "initQuery", queryId |-> queryId,
                     queryString |-> query.queryString,
                     document |-> query.document,
                     storePreviousVariables |-> storePreviousVariables,
                     variables |-> options.variables, isPoll |-> isPoll,
                     isRefetch |-> isRefetch, metadata |-> options.metadata,
                     fetchMoreForQueryId |-> fetchMoreForQueryId ]

\* mutant: result.errors is stored whatever graphQLResultHasError says
GraphQLErrorsOf_IgnoresFlag(result, resultHasGraphQLErrors) ==
    IF "errors" \in DOMAIN result THEN result.errors ELSE <<>>

\* ----------------------------------------------------------- markQueryResult
GraphQLErrorsOf(result, resultHasGraphQLErrors) ==
    IF resultHasGraphQLErrors
    THEN (IF "errors" \in DOMAIN result THEN result.errors ELSE <<>>)
    ELSE <<>>



\* mutant: networkError is not cleared on a result
MarkQueryResultEffect_KeepsNetworkError(st, queryId, result, resultHasGraphQLErrors, fetchMoreForQueryId) ==
    IF queryId \notin DOMAIN st
    THEN [store |-> st, raised |-> "none"]
    ELSE SetFetchMoreStatus(
            [st EXCEPT ![queryId].graphQLErrors =
                            GraphQLErrorsOf(result, resultHasGraphQLErrors),
                       ![queryId].previousVariables = Null,
                       ![queryId].networkStatus = "ready"],
            fetchMoreForQueryId, "ready")

\* mutant: the early return for an untracked queryId is missing, so the first
\* write hits the undefined this.store[queryId]
MarkQueryResultEffect_NoGuard(st, queryId, result, resultHasGraphQLErrors, fetchMoreForQueryId) ==
    IF queryId \notin DOMAIN st
    THEN [store |-> st, raised |-> "TypeError"]
    ELSE SetFetchMoreStatus(
            [st EXCEPT ![queryId].networkError = Null,
                       ![queryId].graphQLErrors =
                            GraphQLErrorsOf(result, resultHasGraphQLErrors),
                       ![queryId].previousVariables = Null,
                       ![queryId].networkStatus = "ready"],
            fetchMoreForQueryId, "ready")

MarkQueryResultEffect(st, queryId, result, resultHasGraphQLErrors, fetchMoreForQueryId) ==
    IF queryId \notin DOMAIN st
    THEN [store |-> st, raised |-> "none"]
    ELSE SetFetchMoreStatus(
            [st EXCEPT ![queryId].networkError = Null,
                       ![queryId].graphQLErrors =
                            GraphQLErrorsOf(result, resultHasGraphQLErrors),
                       ![queryId].previousVariables = Null,
                       ![queryId].networkStatus = "ready"],
            fetchMoreForQueryId, "ready")

MarkQueryResult ==
    /\ call = NoCall
    /\ \E queryId \in QueryIds, result \in Results,
          resultHasGraphQLErrors \in BOOLEAN,
          fetchMoreForQueryId \in QueryIds \cup {Undefined} :
        /\ LET r == MarkQueryResultEffect(store, queryId, result,
                        resultHasGraphQLErrors, fetchMoreForQueryId)
           IN  /\ store' = r.store
               /\ raised' = r.raised
        /\ pre' = store
        /\ call' = [ op |-> "markQueryResult", queryId |-> queryId,
                     result |-> result,
                     resultHasGraphQLErrors |-> resultHasGraphQLErrors,
                     fetchMoreForQueryId |-> fetchMoreForQueryId ]


\* mutant: the error status is set but the error is not stored
MarkQueryErrorEffect_StatusOnly(st, queryId, error, fetchMoreForQueryId) ==
    IF queryId \notin DOMAIN st
    THEN [store |-> st, raised |-> "none"]
    ELSE SetFetchMoreStatus(
            [st EXCEPT ![queryId].networkStatus = "error"],
            fetchMoreForQueryId, "error")

\* mutant: the linked query gets the error status but not the error
MarkQueryErrorEffect_LinkedStatusOnly(st, queryId, error, fetchMoreForQueryId) ==
    IF queryId \notin DOMAIN st
    THEN [store |-> st, raised |-> "none"]
    ELSE LET own == [st EXCEPT ![queryId].networkError = error,
                               ![queryId].networkStatus = "error"]
         IN  IF fetchMoreForQueryId = Undefined
             THEN [store |-> own, raised |-> "none"]
             ELSE IF fetchMoreForQueryId \in DOMAIN own
             THEN [store |-> [own EXCEPT
                                ![fetchMoreForQueryId].networkStatus = "error"],
                   raised |-> "none"]
             ELSE [store |-> own, raised |-> "TypeError"]

\* ------------------------------------------------------------ markQueryError
MarkQueryErrorEffect(st, queryId, error, fetchMoreForQueryId) ==
    IF queryId \notin DOMAIN st
    THEN [store |-> st, raised |-> "none"]
    ELSE LET own == [st EXCEPT ![queryId].networkError = error,
                               ![queryId].networkStatus = "error"]
         IN  IF fetchMoreForQueryId = Undefined
             THEN [store |-> own, raised |-> "none"]
             ELSE IF fetchMoreForQueryId \in DOMAIN own
             THEN [store |-> [own EXCEPT
                                ![fetchMoreForQueryId].networkError = error,
                                ![fetchMoreForQueryId].networkStatus = "error"],
                   raised |-> "none"]
             ELSE [store |-> own, raised |-> "TypeError"]

MarkQueryError ==
    /\ call = NoCall
    /\ \E queryId \in QueryIds, error \in NetworkErrors,
          fetchMoreForQueryId \in QueryIds \cup {Undefined} :
        /\ LET r == MarkQueryErrorEffect(store, queryId, error,
                                         fetchMoreForQueryId)
           IN  /\ store' = r.store
               /\ raised' = r.raised
        /\ pre' = store
        /\ call' = [ op |-> "markQueryError", queryId |-> queryId,
                     error |-> error,
                     fetchMoreForQueryId |-> fetchMoreForQueryId ]


\* mutant: a client result clears graphQLErrors as well
MarkQueryResultClientEffect_ClearsGraphQLErrors(st, queryId, complete) ==
    IF queryId \notin DOMAIN st
    THEN st
    ELSE [st EXCEPT ![queryId].networkError = Null,
                    ![queryId].graphQLErrors = <<>>,
                    ![queryId].previousVariables = Null,
                    ![queryId].networkStatus =
                        IF complete THEN "ready" ELSE "loading"]

\* ----------------------------------------------------- markQueryResultClient
MarkQueryResultClientEffect(st, queryId, complete) ==
    IF queryId \notin DOMAIN st
    THEN st
    ELSE [st EXCEPT ![queryId].networkError = Null,
                    ![queryId].previousVariables = Null,
                    ![queryId].networkStatus =
                        IF complete THEN "ready" ELSE "loading"]

MarkQueryResultClient ==
    /\ call = NoCall
    /\ \E queryId \in QueryIds, complete \in BOOLEAN :
        /\ store' = MarkQueryResultClientEffect(store, queryId, complete)
        /\ raised' = "none"
        /\ pre' = store
        /\ call' = [ op |-> "markQueryResultClient", queryId |-> queryId,
                     complete |-> complete ]


\* mutant: the whole table is dropped
StopQueryEffect_RemovesAll(st, queryId) ==
    [k \in {} |-> Null]

\* ----------------------------------------------------------------- stopQuery
StopQueryEffect(st, queryId) ==
    [k \in DOMAIN st \ {queryId} |-> st[k]]

StopQuery ==
    /\ call = NoCall
    /\ \E queryId \in QueryIds :
        /\ store' = StopQueryEffect(store, queryId)
        /\ raised' = "none"
        /\ pre' = store
        /\ call' = [op |-> "stopQuery", queryId |-> queryId]


\* mutant: queries that are not listed are removed
ResetEffect_DropsInactive(st, observableQueryIds) ==
    [k \in DOMAIN st \cap observableQueryIds |->
        [st[k] EXCEPT !.networkStatus = "loading"]]

\* --------------------------------------------------------------------- reset
ResetEffect(st, observableQueryIds) ==
    [k \in DOMAIN st |->
        IF k \in observableQueryIds
        THEN [st[k] EXCEPT !.networkStatus = "loading"]
        ELSE st[k]]

Reset ==
    /\ call = NoCall
    /\ \E observableQueryIds \in SUBSET QueryIds :
        /\ store' = ResetEffect(store, observableQueryIds)
        /\ raised' = "none"
        /\ pre' = store
        /\ call' = [op |-> "reset", observableQueryIds |-> observableQueryIds]

\* ------------------------------------------------------------------- caller
\* the call has returned (or thrown) and the caller goes on to its next call
Return ==
    /\ call # NoCall
    /\ call' = NoCall
    /\ pre' = store
    /\ raised' = "none"
    /\ UNCHANGED store

Init ==
    /\ store = [k \in {} |-> Null]
    /\ call = NoCall
    /\ pre = store
    /\ raised = "none"

Next ==
    \/ InitQuery
    \/ MarkQueryResult
    \/ MarkQueryError
    \/ MarkQueryResultClient
    \/ StopQuery
    \/ Reset
    \/ Return

Spec == Init /\ [][Next]_vars

TypeOK ==
    /\ DOMAIN store \subseteq QueryIds
    /\ \A k \in DOMAIN store : store[k] \in QueryStoreValue
    /\ raised \in {"none", "Error", "TypeError"}

\* ---------------------------------------------------------------- claims
\* A state with call # NoCall is the state right after that call: pre is the
\* table the call found, store the table it left, raised what it threw.

\* C1: every tracked record whose previousVariables is not null has
\* networkStatus setVariables.
C1_PreviousVariablesOnlyWhileSetVariables ==
    \A k \in DOMAIN store :
        store[k].previousVariables # Null => store[k].networkStatus = "setVariables"

\* C2: initQuery on an existing record with another queryString throws the
\* internal error and leaves the whole table as it was.
C2_MismatchThrowsAndKeepsStore ==
    ( /\ call.op = "initQuery"
      /\ call.queryId \in DOMAIN pre
      /\ pre[call.queryId].queryString # call.queryString )
    => /\ raised = "Error"
       /\ store = pre

C2_Witness ==
    /\ call.op = "initQuery"
    /\ call.queryId \in DOMAIN pre
    /\ pre[call.queryId].queryString # call.queryString
    /\ pre[call.queryId].networkStatus = "setVariables"
    /\ call.fetchMoreForQueryId \in DOMAIN pre \ {call.queryId}
    /\ raised = "Error"

\* C3: a record that is in the table before and after a call keeps its
\* queryString (only stopQuery ends a record's life), and initQuery with the
\* existing record's queryString never throws the internal error.
C3_QueryStringImmutable ==
    /\ \A k \in DOMAIN pre \cap DOMAIN store :
            store[k].queryString = pre[k].queryString
    /\ ( /\ call.op = "initQuery"
         /\ call.queryId \in DOMAIN pre
         /\ pre[call.queryId].queryString = call.queryString )
       => raised # "Error"

C3_Witness ==
    /\ call.op = "initQuery"
    /\ call.queryId \in DOMAIN pre
    /\ pre[call.queryId].queryString = call.queryString
    /\ pre[call.queryId].variables # call.variables
    /\ pre[call.queryId].metadata # call.metadata
    /\ call.isPoll
    /\ raised = "none"
    /\ store[call.queryId].queryString = call.queryString

\* the case C4 is about: storePreviousVariables, an existing record that is
\* not loading, and variables that differ from the new ones
C4_Case ==
    /\ call.op = "initQuery"
    /\ call.storePreviousVariables
    /\ call.queryId \in DOMAIN pre
    /\ pre[call.queryId].networkStatus # "loading"
    /\ Content(pre[call.queryId].variables) # Content(call.variables)

\* C4 as stated: in that case the resulting record has networkStatus
\* setVariables and previousVariables equal to the old record's variables.
C4_Original ==
    C4_Case =>
        /\ store[call.queryId].networkStatus = "setVariables"
        /\ store[call.queryId].previousVariables = pre[call.queryId].variables

\* C4 amended: in that case, unless the call throws the internal error,
\* previousVariables equals the old record's variables and networkStatus is
\* setVariables, or fetchMore when fetchMoreForQueryId is queryId itself.
C4_SetVariablesUnlessThrownOrSelfLinked ==
    (C4_Case /\ raised # "Error") =>
        /\ store[call.queryId].previousVariables = pre[call.queryId].variables
        /\ store[call.queryId].networkStatus =
              IF call.fetchMoreForQueryId = call.queryId
              THEN "fetchMore" ELSE "setVariables"

C4_Witness ==
    /\ C4_Case
    /\ call.isPoll
    /\ call.isRefetch
    /\ raised = "none"
    /\ store[call.queryId].networkStatus = "setVariables"
    /\ store[call.queryId].previousVariables = pre[call.queryId].variables

\* C5: initQuery on a record that is loading never yields setVariables and
\* never stores previousVariables: the call either throws the internal error
\* and leaves the table alone, or leaves previousVariables null.
C5_LoadingNeverSetVariables ==
    ( /\ call.op = "initQuery"
      /\ call.queryId \in DOMAIN pre
      /\ pre[call.queryId].networkStatus = "loading" )
    => /\ store[call.queryId].networkStatus # "setVariables"
       /\ raised = "Error" => store = pre
       /\ raised # "Error" => store[call.queryId].previousVariables = Null

C5_Witness ==
    /\ call.op = "initQuery"
    /\ call.queryId \in DOMAIN pre
    /\ pre[call.queryId].networkStatus = "loading"
    /\ pre[call.queryId].previousVariables # Null
    /\ call.storePreviousVariables
    /\ Content(pre[call.queryId].variables) # Content(call.variables)
    /\ raised = "none"
    /\ store[call.queryId].previousVariables = Null

\* the variables-changed rule of initQuery, read off the call and the table
\* it found
C6_VariablesChanged ==
    /\ call.storePreviousVariables
    /\ call.queryId \in DOMAIN pre
    /\ pre[call.queryId].networkStatus # "loading"
    /\ Content(pre[call.queryId].variables) # Content(call.variables)

\* the record the precedence rules prescribe for the call
C6_FreshRecord ==
    [ queryString |-> call.queryString,
      document |-> call.document,
      variables |-> call.variables,
      previousVariables |->
          IF C6_VariablesChanged THEN pre[call.queryId].variables ELSE Null,
      networkError |-> Null,
      graphQLErrors |-> <<>>,
      networkStatus |->
          IF C6_VariablesChanged THEN "setVariables"
          ELSE IF call.isPoll THEN "poll"
          ELSE IF call.isRefetch THEN "refetch"
          ELSE "loading",
      metadata |-> call.metadata ]

\* C6 as stated: after an initQuery that throws nothing the record of queryId
\* is the fresh record with the status of the precedence rules, for every
\* fetchMoreForQueryId.
C6_Original ==
    (call.op = "initQuery" /\ raised = "none") =>
        store[call.queryId] = C6_FreshRecord

\* C6 amended: after an initQuery that throws nothing the record of queryId
\* is the fresh record with the status of the precedence rules, except that
\* its networkStatus is fetchMore when fetchMoreForQueryId is queryId itself.
C6_FreshRecordUnlessSelfLinked ==
    (call.op = "initQuery" /\ raised = "none") =>
        store[call.queryId] =
            IF call.fetchMoreForQueryId = call.queryId
            THEN [C6_FreshRecord EXCEPT !.networkStatus = "fetchMore"]
            ELSE C6_FreshRecord

C6_Witness ==
    /\ call.op = "initQuery"
    /\ raised = "none"
    /\ call.queryId \in DOMAIN pre
    /\ pre[call.queryId].networkError # Null
    /\ pre[call.queryId].previousVariables # Null
    /\ pre[call.queryId].metadata # call.metadata
    /\ call.fetchMoreForQueryId = call.queryId
    /\ store[call.queryId].networkStatus = "fetchMore"
    /\ store[call.queryId].previousVariables = pre[call.queryId].variables

\* C7 as stated: initQuery with fetchMoreForQueryId naming a tracked record
\* sets that record's networkStatus to fetchMore and leaves its other fields.
C7_Original ==
    ( /\ call.op = "initQuery"
      /\ call.fetchMoreForQueryId \in DOMAIN pre )
    => store[call.fetchMoreForQueryId] =
          [pre[call.fetchMoreForQueryId] EXCEPT !.networkStatus = "fetchMore"]

\* C7 amended: an initQuery that does not throw the internal error, with
\* fetchMoreForQueryId naming a tracked record, leaves that record with
\* networkStatus fetchMore; when fetchMoreForQueryId is not queryId, every
\* other field of that record is unchanged.
C7_LinkedBecomesFetchMore ==
    ( /\ call.op = "initQuery"
      /\ call.fetchMoreForQueryId \in DOMAIN pre
      /\ raised # "Error" )
    => /\ store[call.fetchMoreForQueryId].networkStatus = "fetchMore"
       /\ call.fetchMoreForQueryId # call.queryId =>
             store[call.fetchMoreForQueryId] =
                [pre[call.fetchMoreForQueryId] EXCEPT !.networkStatus = "fetchMore"]

C7_Witness ==
    /\ call.op = "initQuery"
    /\ call.fetchMoreForQueryId \in DOMAIN pre \ {call.queryId}
    /\ pre[call.fetchMoreForQueryId].networkStatus = "error"
    /\ pre[call.fetchMoreForQueryId].previousVariables # Null
    /\ pre[call.fetchMoreForQueryId].networkError # Null
    /\ raised = "none"
    /\ store[call.fetchMoreForQueryId].networkStatus = "fetchMore"

\* C8: initQuery, markQueryResult or markQueryError given a
\* fetchMoreForQueryId that names no tracked record throws nothing and creates
\* no record under fetchMoreForQueryId.
C8_UntrackedLinkedIsIgnored ==
    ( /\ call.op \in {"initQuery", "markQueryResult", "markQueryError"}
      /\ call.fetchMoreForQueryId # Undefined
      /\ call.fetchMoreForQueryId # call.queryId
      /\ call.fetchMoreForQueryId \notin DOMAIN pre )
    => /\ raised = "none"
       /\ call.fetchMoreForQueryId \notin DOMAIN store

\* C9: markQueryResult on a tracked queryId leaves its record ready, with
\* networkError and previousVariables null and graphQLErrors equal to
\* result.errors (empty when the result has no errors field) if the result has
\* GraphQL errors and empty otherwise; a tracked fetchMoreForQueryId record
\* becomes ready as well.
C9_MarkQueryResult ==
    ( /\ call.op = "markQueryResult"
      /\ call.queryId \in DOMAIN pre )
    => /\ store[call.queryId].networkStatus = "ready"
       /\ store[call.queryId].networkError = Null
       /\ store[call.queryId].previousVariables = Null
       /\ store[call.queryId].graphQLErrors =
             IF call.resultHasGraphQLErrors /\ "errors" \in DOMAIN call.result
             THEN call.result.errors ELSE <<>>
       /\ call.fetchMoreForQueryId \in DOMAIN pre =>
             store[call.fetchMoreForQueryId].networkStatus = "ready"

C9_Witness ==
    /\ call.op = "markQueryResult"
    /\ call.queryId \in DOMAIN pre
    /\ pre[call.queryId].previousVariables # Null
    /\ pre[call.queryId].networkError # Null
    /\ call.resultHasGraphQLErrors
    /\ "errors" \in DOMAIN call.result
    /\ call.result.errors # <<>>
    /\ call.fetchMoreForQueryId \in DOMAIN pre \ {call.queryId}
    /\ pre[call.fetchMoreForQueryId].networkStatus = "fetchMore"
    /\ store[call.queryId].graphQLErrors = call.result.errors
    /\ store[call.fetchMoreForQueryId].networkStatus = "ready"

\* C10: markQueryError on a tracked queryId leaves its record with
\* networkError equal to the error and networkStatus error; a tracked
\* fetchMoreForQueryId record gets the same networkError and networkStatus.
C10_MarkQueryError ==
    ( /\ call.op = "markQueryError"
      /\ call.queryId \in DOMAIN pre )
    => /\ store[call.queryId].networkError = call.error
       /\ store[call.queryId].networkStatus = "error"
       /\ call.fetchMoreForQueryId \in DOMAIN pre =>
             /\ store[call.fetchMoreForQueryId].networkError = call.error
             /\ store[call.fetchMoreForQueryId].networkStatus = "error"

C10_Witness ==
    /\ call.op = "markQueryError"
    /\ call.queryId \in DOMAIN pre
    /\ pre[call.queryId].networkError = Null
    /\ call.fetchMoreForQueryId \in DOMAIN pre \ {call.queryId}
    /\ pre[call.fetchMoreForQueryId].networkError = Null
    /\ pre[call.fetchMoreForQueryId].networkStatus = "fetchMore"
    /\ store[call.fetchMoreForQueryId].networkError = call.error
    /\ store[call.fetchMoreForQueryId].networkStatus = "error"

\* C11: markQueryResult, markQueryError and markQueryResultClient on an
\* untracked queryId throw nothing and leave the whole table as it was: no
\* record appears for queryId and a tracked fetchMoreForQueryId record is not
\* touched.
C11_MarkUntrackedIsNoOp ==
    ( /\ call.op \in {"markQueryResult", "markQueryError", "markQueryResultClient"}
      /\ call.queryId \notin DOMAIN pre )
    => /\ raised = "none"
       /\ store = pre

C11_Witness ==
    /\ call.op = "markQueryResult"
    /\ call.queryId \notin DOMAIN pre
    /\ call.fetchMoreForQueryId \in DOMAIN pre
    /\ pre[call.fetchMoreForQueryId].networkStatus = "fetchMore"
    /\ call.resultHasGraphQLErrors
    /\ raised = "none"
    /\ store = pre

\* C12: stopQuery leaves queryId untracked and every other record as it was,
\* whether or not queryId was tracked; stopQuery of an untracked queryId (a
\* second stop) leaves the table as it found it; and an untracked id becomes
\* tracked only by an initQuery of that id.
C12_StopQuery ==
    /\ call.op = "stopQuery" =>
          /\ call.queryId \notin DOMAIN store
          /\ DOMAIN store = DOMAIN pre \ {call.queryId}
          /\ \A k \in DOMAIN store : store[k] = pre[k]
          /\ call.queryId \notin DOMAIN pre => store = pre
    /\ \A k \in DOMAIN store \ DOMAIN pre :
          call.op = "initQuery" /\ call.queryId = k

C12_Witness ==
    /\ call.op = "stopQuery"
    /\ call.queryId \in DOMAIN pre
    /\ DOMAIN pre = QueryIds
    /\ pre[call.queryId].networkStatus = "setVariables"
    /\ call.queryId \notin DOMAIN store
    /\ DOMAIN store # {}

C14_GraphQLErrorsOnlyWhenReady ==
    \A k \in DOMAIN store :
        store[k].graphQLErrors # <<>> => store[k].networkStatus = "ready"

\* C15: no tracked record has both a networkError and a non-empty
\* graphQLErrors.
C15_NetworkErrorExcludesGraphQLErrors ==
    \A k \in DOMAIN store :
        ~(store[k].networkError # Null /\ store[k].graphQLErrors # <<>>)

\* C16: when the variables-changed rule does not apply, initQuery selects
\* poll if isPoll (also when isRefetch is set too), otherwise refetch if
\* isRefetch, otherwise loading; the record of queryId carries that status
\* (fetchMore when fetchMoreForQueryId is queryId itself).
C16_StatusPrecedence ==
    ( /\ call.op = "initQuery"
      /\ raised # "Error"
      /\ ~C6_VariablesChanged )
    => store[call.queryId].networkStatus =
          IF call.fetchMoreForQueryId = call.queryId THEN "fetchMore"
          ELSE IF call.isPoll THEN "poll"
          ELSE IF call.isRefetch THEN "refetch"
          ELSE "loading"

C16_Witness ==
    /\ call.op = "initQuery"
    /\ raised = "none"
    /\ call.queryId \in DOMAIN pre
    /\ call.storePreviousVariables
    /\ pre[call.queryId].networkStatus = "loading"
    /\ pre[call.queryId].variables # call.variables
    /\ call.isPoll
    /\ call.isRefetch
    /\ call.fetchMoreForQueryId = Undefined
    /\ store[call.queryId].networkStatus = "poll"

\* C17: a record comes to have networkStatus fetchMore only in an initQuery
\* step whose fetchMoreForQueryId names that record.
C17_FetchMoreOnlyByLinkedInit ==
    \A k \in DOMAIN store :
        ( /\ store[k].networkStatus = "fetchMore"
          /\ (k \in DOMAIN pre => pre[k].networkStatus # "fetchMore") )
        => /\ call.op = "initQuery"
           /\ call.fetchMoreForQueryId = k

C17_Witness ==
    /\ call.op = "initQuery"
    /\ call.isRefetch
    /\ call.fetchMoreForQueryId \in DOMAIN pre \ {call.queryId}
    /\ pre[call.fetchMoreForQueryId].networkStatus = "ready"
    /\ store[call.fetchMoreForQueryId].networkStatus = "fetchMore"
    /\ store[call.queryId].networkStatus = "refetch"

\* C18: markQueryResultClient on a tracked queryId leaves its record with
\* networkError and previousVariables null and networkStatus ready if
\* complete, loading otherwise; no other field of that record and no other
\* record changes.
C18_MarkQueryResultClient ==
    ( /\ call.op = "markQueryResultClient"
      /\ call.queryId \in DOMAIN pre )
    => /\ raised = "none"
       /\ DOMAIN store = DOMAIN pre
       /\ \A k \in DOMAIN pre :
             store[k] =
                IF k = call.queryId
                THEN [pre[k] EXCEPT
                        !.networkError = Null,
                        !.previousVariables = Null,
                        !.networkStatus =
                            IF call.complete THEN "ready" ELSE "loading"]
                ELSE pre[k]

C18_Witness ==
    /\ call.op = "markQueryResultClient"
    /\ DOMAIN pre = QueryIds
    /\ ~call.complete
    /\ pre[call.queryId].networkError # Null
    /\ pre[call.queryId].graphQLErrors # <<>>
    /\ pre[call.queryId].networkStatus = "error"
    /\ store[call.queryId].networkStatus = "loading"
    /\ store[call.queryId].graphQLErrors = pre[call.queryId].graphQLErrors

\* C19 as stated: every tracked record with networkStatus ready has
\* networkError null.
C19_Original ==
    \A k \in DOMAIN store :
        store[k].networkStatus = "ready" => store[k].networkError = Null

\* C19 amended: a record is ready with a networkError only if it was so
\* before the call, or the call is a markQueryResult for another queryId that
\* names the record as fetchMoreForQueryId and found the networkError on it.
C19_ReadyWithErrorOnlyByLinkedResult ==
    \A k \in DOMAIN store :
        (store[k].networkStatus = "ready" /\ store[k].networkError # Null)
        => /\ k \in DOMAIN pre
           /\ pre[k].networkError = store[k].networkError
           /\ \/ pre[k].networkStatus = "ready"
              \/ /\ call.op = "markQueryResult"
                 /\ call.fetchMoreForQueryId = k
                 /\ call.queryId # k

C19_Witness ==
    /\ call.op = "markQueryResult"
    /\ call.queryId \in DOMAIN pre
    /\ call.fetchMoreForQueryId \in DOMAIN pre \ {call.queryId}
    /\ pre[call.queryId].networkError # Null
    /\ pre[call.fetchMoreForQueryId].networkError # Null
    /\ pre[call.fetchMoreForQueryId].networkStatus = "error"
    /\ store[call.queryId].networkStatus = "ready"
    /\ store[call.queryId].networkError = Null
    /\ store[call.fetchMoreForQueryId].networkStatus = "ready"
    /\ store[call.fetchMoreForQueryId].networkError # Null

\* C20: every tracked record with networkStatus error has a networkError
\* (markQueryError is only ever given an Error, never null).
C20_ErrorStatusHasNetworkError ==
    \A k \in DOMAIN store :
        store[k].networkStatus = "error" => store[k].networkError # Null

C20_Witness ==
    /\ call.op = "markQueryError"
    /\ call.queryId \in DOMAIN pre
    /\ call.fetchMoreForQueryId = Undefined
    /\ pre[call.queryId].networkStatus = "ready"
    /\ pre[call.queryId].networkError = Null
    /\ pre[call.queryId].graphQLErrors # <<>>
    /\ store[call.queryId].networkStatus = "error"
    /\ store[call.queryId].networkError = call.error

====
